---------------------------- MODULE Spec2Model ----------------------------
(***************************************************************************)
(* A model of server.js: the JSON extractor (extractJson), the medicine     *)
(* data formatter (formatMedicineData) and the POST /api/ai handler.        *)
(*                                                                          *)
(* A JavaScript string is a sequence of one-character strings.  A value     *)
(* that may be null/undefined where the code expects a string is a record   *)
(* [some, s].                                                               *)
(***************************************************************************)
EXTENDS Integers, Sequences, FiniteSets, TLC

VARIABLES
  ex,   \* the extractor under test: [pc, text, result]
  fm,   \* the formatter under test: [pc, data, result]
  req   \* the requests of POST /api/ai, one record per request

vars == <<ex, fm, req>>

----------------------------------------------------------------------------
(* Bounds of the model.                                                     *)

\* the number of pieces a text given to extractJson is put together from
MaxPieces == 5

----------------------------------------------------------------------------
(* Strings.                                                                 *)

None == [some |-> FALSE, s |-> <<>>]
Some(s) == [some |-> TRUE, s |-> s]

\* the backtick character, which a TLA+ string literal cannot hold
Tick == "BACKTICK"

\* the fence marker: three backticks
FENCE == <<Tick, Tick, Tick>>

\* WhiteSpace and LineTerminator characters, which String.prototype.trim removes
IsWhiteSpace(c) == c \in {" ", "\n", "\t", "\r"}

RECURSIVE TrimStart(_)
TrimStart(s) ==
  IF s = <<>> THEN s
  ELSE IF IsWhiteSpace(Head(s)) THEN TrimStart(Tail(s)) ELSE s

RECURSIVE TrimEnd(_)
TrimEnd(s) ==
  IF s = <<>> THEN s
  ELSE IF IsWhiteSpace(s[Len(s)]) THEN TrimEnd(SubSeq(s, 1, Len(s) - 1)) ELSE s

\* String.prototype.trim
Trim(s) == TrimEnd(TrimStart(s))

\* whether pat occurs in s at (1-based) position i
StartsAt(s, i, pat) ==
  /\ i >= 1
  /\ i + Len(pat) - 1 <= Len(s)
  /\ \A k \in 1..Len(pat) : s[i + k - 1] = pat[k]

\* the least and the greatest member of a non-empty set of numbers
Least(S) == CHOOSE i \in S : \A k \in S : i <= k
Greatest(S) == CHOOSE i \in S : \A k \in S : k <= i

\* String.prototype.indexOf(c): the first position of character c, 0 for -1
IndexOf(s, c) ==
  LET at == { i \in 1..Len(s) : s[i] = c }
  IN IF at = {} THEN 0 ELSE Least(at)

\* String.prototype.lastIndexOf(c): the last position of character c, 0 for -1
LastIndexOf(s, c) ==
  LET at == { i \in 1..Len(s) : s[i] = c }
  IN IF at = {} THEN 0 ELSE Greatest(at)

\* the comparison without the i flag
EqCaseSensitive(c, lower) == c = lower

\* the regular expression's i flag: a character of "json" in either case
EqIgnoreCase(c, lower) ==
  \/ c = lower
  \/ (lower = "j" /\ c = "J")
  \/ (lower = "s" /\ c = "S")
  \/ (lower = "o" /\ c = "O")
  \/ (lower = "n" /\ c = "N")

JSONLABEL == <<"j", "s", "o", "n">>

\* whether the label json, in any case, occurs in s at position i
LabelAt(s, i) ==
  /\ i + 3 <= Len(s)
  /\ \A k \in 1..4 : EqIgnoreCase(s[i + k - 1], JSONLABEL[k])

----------------------------------------------------------------------------
(* extractJson.                                                             *)

\* the greedy group ([\s\S]*)FENCE: the last closing fence from position i on
GreedyClose(s, i) ==
  LET at == { k \in i..Len(s) : StartsAt(s, k, FENCE) }
  IN IF at = {} THEN 0 ELSE Greatest(at)

\* ([\s\S]*?)FENCE tried from position i on: the lazy group takes one more
\* character at a time until the closing fence matches, so the group ends
\* at the first fence from i on; 0 when there is none
LazyClose(s, i) ==
  LET at == { k \in i..Len(s) : StartsAt(s, k, FENCE) }
  IN IF at = {} THEN 0 ELSE Least(at)

\* text.match(/FENCE json([\s\S]*?)FENCE/i): the match is tried at each
\* position from the left; the result is the captured group at the first
\* position where it succeeds, None when there is no match
MatchJsonFence(s) ==
  LET at == { i \in 1..Len(s) :
                StartsAt(s, i, FENCE) /\ LabelAt(s, i + 3) /\ LazyClose(s, i + 7) # 0 }
  IN IF at = {} THEN None
     ELSE Some(SubSeq(s, Least(at) + 7, LazyClose(s, Least(at) + 7) - 1))

\* text.match(/FENCE([\s\S]*?)FENCE/)
MatchGenericFence(s) ==
  LET at == { i \in 1..Len(s) : StartsAt(s, i, FENCE) /\ LazyClose(s, i + 3) # 0 }
  IN IF at = {} THEN None
     ELSE Some(SubSeq(s, Least(at) + 3, LazyClose(s, Least(at) + 3) - 1))

\* SliceBraces with indexOf in the place of lastIndexOf
SliceBracesFirstClose(s) ==
  LET start == IndexOf(s, "{")
      end == IndexOf(s, "}")
  IN IF start # 0 /\ end # 0 /\ end > start
     THEN Some(Trim(SubSeq(s, start, end)))
     ELSE None

\* the fallback of extractJson: the slice between the first { and the last }
SliceBraces(s) ==
  LET start == IndexOf(s, "{")
      end == LastIndexOf(s, "}")
  IN IF start # 0 /\ end # 0 /\ end > start
     THEN Some(Trim(SubSeq(s, start, end)))
     ELSE None

\* extractJson(text); text is None for an absent (undefined, null) argument
extractJson(text) ==
  IF ~text.some \/ text.s = <<>> THEN None
  ELSE LET fenced == MatchJsonFence(text.s)
           genericFenced == MatchGenericFence(text.s)
       IN IF fenced.some THEN Some(Trim(fenced.s))
          ELSE IF genericFenced.some THEN Some(Trim(genericFenced.s))
          ELSE SliceBraces(text.s)

----------------------------------------------------------------------------
(* JavaScript values as JSON.parse produces them: a record of the type t    *)
(* and, by the type, the boolean b, the number n, the characters s, the     *)
(* elements a, or the members m of an object, a sequence of <<key, value>>  *)
(* in insertion order.  undefined is what reading a missing property gives. *)

Value(t, b, n, s, a, m) == [t |-> t, b |-> b, n |-> n, s |-> s, a |-> a, m |-> m]

Undefined == Value("undefined", FALSE, 0, <<>>, <<>>, <<>>)
JNull == Value("null", FALSE, 0, <<>>, <<>>, <<>>)
JBool(b) == Value("bool", b, 0, <<>>, <<>>, <<>>)
JNum(n) == Value("num", FALSE, n, <<>>, <<>>, <<>>)
JStr(s) == Value("str", FALSE, 0, s, <<>>, <<>>)
JArr(a) == Value("arr", FALSE, 0, <<>>, a, <<>>)
JObj(m) == Value("obj", FALSE, 0, <<>>, <<>>, m)

W_null ==
  <<"n", "u", "l", "l">>

W_undefined ==
  <<"u", "n", "d", "e", "f", "i", "n", "e", "d">>

W_true ==
  <<"t", "r", "u", "e">>

W_false ==
  <<"f", "a", "l", "s", "e">>

ObjectObject ==
  <<"[", "o", "b", "j", "e", "c", "t", " ", "O", "b", "j", "e", "c", "t",
    "]">>

K_toString ==
  <<"t", "o", "S", "t", "r", "i", "n", "g">>

\* whether object o has an own property key
HasKey(o, key) == o.t = "obj" /\ \E i \in 1..Len(o.m) : o.m[i][1] = key

\* the property read v.key of a value that is not null: an object's own
\* member, undefined for a missing one and for the keys the code reads on
\* a number, a boolean, a string or an array
Get(v, key) ==
  IF HasKey(v, key)
  THEN v.m[CHOOSE i \in 1..Len(v.m) : v.m[i][1] = key][2]
  ELSE Undefined

\* ToBoolean
Truthy(v) ==
  CASE v.t = "undefined" -> FALSE
    [] v.t = "null" -> FALSE
    [] v.t = "bool" -> v.b
    [] v.t = "num" -> v.n # 0
    [] v.t = "str" -> v.s # <<>>
    [] OTHER -> TRUE

\* Array.isArray
IsArray(v) == v.t = "arr"

Digit(d) == <<"0", "1", "2", "3", "4", "5", "6", "7", "8", "9">>[d + 1]

\* the decimal digits of a natural number
RECURSIVE Digits(_)
Digits(n) == IF n < 10 THEN <<Digit(n)>> ELSE Digits(n \div 10) \o <<Digit(n % 10)>>

\* whether ToString(v) throws a TypeError: an object whose own toString
\* member (never a function) hides Object.prototype.toString has no
\* primitive value; an array is joined from its elements
RECURSIVE ToStringThrows(_)
ToStringThrows(v) ==
  CASE v.t = "obj" -> HasKey(v, K_toString)
    [] v.t = "arr" -> \E i \in 1..Len(v.a) : ToStringThrows(v.a[i])
    [] OTHER -> FALSE

\* ToString(v), as a template literal and Array.prototype.join apply it
RECURSIVE ToStr(_)
RECURSIVE JoinFrom(_, _, _)
ToStr(v) ==
  CASE v.t = "undefined" -> W_undefined
    [] v.t = "null" -> W_null
    [] v.t = "bool" -> IF v.b THEN W_true ELSE W_false
    [] v.t = "num" -> Digits(v.n)
    [] v.t = "str" -> v.s
    [] v.t = "arr" -> JoinFrom(v.a, <<",">>, 1)
    [] OTHER -> ObjectObject

\* Array.prototype.join(sep) from element i on: null and undefined
\* elements give the empty string
JoinFrom(a, sep, i) ==
  IF i > Len(a) THEN <<>>
  ELSE (IF a[i].t \in {"null", "undefined"} THEN <<>> ELSE ToStr(a[i]))
       \o (IF i < Len(a) THEN sep ELSE <<>>)
       \o JoinFrom(a, sep, i + 1)

Join(a, sep) == JoinFrom(a, sep, 1)

----------------------------------------------------------------------------
(* JSON.stringify and JSON.parse.  The texts of the model hold natural      *)
(* numbers only and no \b, \f, \u escape.                                   *)

\* the quoted form of a string, its characters escaped
RECURSIVE QuoteChars(_)
QuoteChars(s) ==
  IF s = <<>> THEN <<>>
  ELSE (CASE Head(s) = "\"" -> <<"\\", "\"">>
          [] Head(s) = "\\" -> <<"\\", "\\">>
          [] Head(s) = "\n" -> <<"\\", "n">>
          [] Head(s) = "\t" -> <<"\\", "t">>
          [] Head(s) = "\r" -> <<"\\", "r">>
          [] OTHER -> <<Head(s)>>)
       \o QuoteChars(Tail(s))

Quote(s) == <<"\"">> \o QuoteChars(s) \o <<"\"">>

\* JSON.stringify(v) of a parsed value
RECURSIVE Stringify(_)
RECURSIVE StringifyElements(_, _)
RECURSIVE StringifyMembers(_, _)
Stringify(v) ==
  CASE v.t = "null" -> W_null
    [] v.t = "bool" -> IF v.b THEN W_true ELSE W_false
    [] v.t = "num" -> Digits(v.n)
    [] v.t = "str" -> Quote(v.s)
    [] v.t = "arr" -> <<"[">> \o StringifyElements(v.a, 1) \o <<"]">>
    [] OTHER -> <<"{">> \o StringifyMembers(v.m, 1) \o <<"}">>

StringifyElements(a, i) ==
  IF i > Len(a) THEN <<>>
  ELSE Stringify(a[i]) \o (IF i < Len(a) THEN <<",">> ELSE <<>>)
       \o StringifyElements(a, i + 1)

StringifyMembers(m, i) ==
  IF i > Len(m) THEN <<>>
  ELSE Quote(m[i][1]) \o <<":">> \o Stringify(m[i][2])
       \o (IF i < Len(m) THEN <<",">> ELSE <<>>)
       \o StringifyMembers(m, i + 1)

\* the white space of the JSON grammar
IsJsonSpace(c) == c \in {" ", "\n", "\t", "\r"}

RECURSIVE SkipSpace(_, _)
SkipSpace(s, i) ==
  IF i <= Len(s) /\ IsJsonSpace(s[i]) THEN SkipSpace(s, i + 1) ELSE i

IsDigit(c) == c \in {"0", "1", "2", "3", "4", "5", "6", "7", "8", "9"}
DigitValue(c) == CHOOSE d \in 0..9 : Digit(d) = c

\* a parse result: ok, the value, and the position after it
ParseFail == [ok |-> FALSE, v |-> JNull, next |-> 0]
Parsed(v, next) == [ok |-> TRUE, v |-> v, next |-> next]

\* the digits of a number from position i on, acc the value so far
RECURSIVE ParseDigits(_, _, _)
ParseDigits(s, i, acc) ==
  IF i <= Len(s) /\ IsDigit(s[i])
  THEN ParseDigits(s, i + 1, acc * 10 + DigitValue(s[i]))
  ELSE Parsed(JNum(acc), i)

\* a number: 0, or a digit 1-9 and more digits
ParseNumber(s, i) ==
  IF s[i] = "0" THEN Parsed(JNum(0), i + 1) ELSE ParseDigits(s, i, 0)

\* the characters of a string from position i (after the opening quote) on,
\* as the string value; a line break or tab inside a string is an error
RECURSIVE ParseChars(_, _, _)
ParseChars(s, i, acc) ==
  IF i > Len(s) THEN ParseFail
  ELSE IF s[i] = "\"" THEN Parsed(JStr(acc), i + 1)
  ELSE IF s[i] \in {"\n", "\t", "\r"} THEN ParseFail
  ELSE IF s[i] = "\\"
       THEN IF i + 1 > Len(s) THEN ParseFail
            ELSE CASE s[i + 1] = "\"" -> ParseChars(s, i + 2, Append(acc, "\""))
                   [] s[i + 1] = "\\" -> ParseChars(s, i + 2, Append(acc, "\\"))
                   [] s[i + 1] = "/" -> ParseChars(s, i + 2, Append(acc, "/"))
                   [] s[i + 1] = "n" -> ParseChars(s, i + 2, Append(acc, "\n"))
                   [] s[i + 1] = "t" -> ParseChars(s, i + 2, Append(acc, "\t"))
                   [] s[i + 1] = "r" -> ParseChars(s, i + 2, Append(acc, "\r"))
                   [] OTHER -> ParseFail
       ELSE ParseChars(s, i + 1, Append(acc, s[i]))

\* the members with member <<key, v>> set: a repeated key keeps its place
\* and takes the later value
PutMember(m, key, v) ==
  IF \E i \in 1..Len(m) : m[i][1] = key
  THEN [i \in 1..Len(m) |-> IF m[i][1] = key THEN <<key, v>> ELSE m[i]]
  ELSE Append(m, <<key, v>>)

\* a JSON value at position i (leading white space skipped by the caller)
RECURSIVE ParseValue(_, _)
RECURSIVE ParseElements(_, _, _)
RECURSIVE ParseMembers(_, _, _)
ParseValue(s, i) ==
  IF i > Len(s) THEN ParseFail
  ELSE CASE StartsAt(s, i, W_null) -> Parsed(JNull, i + 4)
         [] StartsAt(s, i, W_true) -> Parsed(JBool(TRUE), i + 4)
         [] StartsAt(s, i, W_false) -> Parsed(JBool(FALSE), i + 5)
         [] IsDigit(s[i]) -> ParseNumber(s, i)
         [] s[i] = "\"" ->
              ParseChars(s, i + 1, <<>>)
         [] s[i] = "[" ->
              LET j == SkipSpace(s, i + 1)
              IN IF j <= Len(s) /\ s[j] = "]" THEN Parsed(JArr(<<>>), j + 1)
                 ELSE ParseElements(s, j, <<>>)
         [] s[i] = "{" ->
              LET j == SkipSpace(s, i + 1)
              IN IF j <= Len(s) /\ s[j] = "}" THEN Parsed(JObj(<<>>), j + 1)
                 ELSE ParseMembers(s, j, <<>>)
         [] OTHER -> ParseFail

\* the elements of an array from position i on, up to its ]
ParseElements(s, i, acc) ==
  LET r == ParseValue(s, i)
      j == SkipSpace(s, r.next)
  IN IF ~r.ok \/ j > Len(s) THEN ParseFail
     ELSE IF s[j] = "]" THEN Parsed(JArr(Append(acc, r.v)), j + 1)
     ELSE IF s[j] = "," THEN ParseElements(s, SkipSpace(s, j + 1), Append(acc, r.v))
     ELSE ParseFail

\* the members of an object from position i on, up to its }
ParseMembers(s, i, acc) ==
  IF i > Len(s) \/ s[i] # "\"" THEN ParseFail
  ELSE LET k == ParseChars(s, i + 1, <<>>)
           c == SkipSpace(s, k.next)
       IN IF ~k.ok \/ c > Len(s) \/ s[c] # ":" THEN ParseFail
          ELSE LET r == ParseValue(s, SkipSpace(s, c + 1))
                   j == SkipSpace(s, r.next)
               IN IF ~r.ok \/ j > Len(s) THEN ParseFail
                  ELSE IF s[j] = "}"
                       THEN Parsed(JObj(PutMember(acc, k.v.s, r.v)), j + 1)
                  ELSE IF s[j] = ","
                       THEN ParseMembers(s, SkipSpace(s, j + 1), PutMember(acc, k.v.s, r.v))
                  ELSE ParseFail

\* JSON.parse(text): one value with white space around it and nothing
\* else; ok is FALSE where JSON.parse throws a SyntaxError
JSONparse(s) ==
  LET r == ParseValue(s, SkipSpace(s, 1))
  IN IF r.ok /\ SkipSpace(s, r.next) = Len(s) + 1 THEN r ELSE ParseFail

----------------------------------------------------------------------------
(* formatMedicineData.  A computation that may throw gives [threw, s].      *)

K_name ==
  <<"n", "a", "m", "e">>

K_uses ==
  <<"u", "s", "e", "s">>

K_sideEffects ==
  <<"s", "i", "d", "e", "E", "f", "f", "e", "c", "t", "s">>

K_note ==
  <<"n", "o", "t", "e">>

K_condition ==
  <<"c", "o", "n", "d", "i", "t", "i", "o", "n">>

K_description ==
  <<"d", "e", "s", "c", "r", "i", "p", "t", "i", "o", "n">>

K_severity ==
  <<"s", "e", "v", "e", "r", "i", "t", "y">>

K_effects ==
  <<"e", "f", "f", "e", "c", "t", "s">>

UnknownMedicine ==
  <<"U", "n", "k", "n", "o", "w", "n", " ", "m", "e", "d", "i", "c", "i",
    "n", "e">>

UsesHeader ==
  <<"U", "s", "e", "s", ":", "\n">>

SideEffectsHeader ==
  <<"S", "i", "d", "e", " ", "E", "f", "f", "e", "c", "t", "s", ":", "\n">>

SeverityNotSpecified ==
  <<"S", "e", "v", "e", "r", "i", "t", "y", " ", "n", "o", "t", " ", "s",
    "p", "e", "c", "i", "f", "i", "e", "d">>

NoteHeader ==
  <<"N", "o", "t", "e", ":", "\n">>

Disclaimer ==
  <<"T", "h", "i", "s", " ", "i", "n", "f", "o", "r", "m", "a", "t", "i",
    "o", "n", " ", "i", "s", " ", "f", "o", "r", " ", "e", "d", "u", "c",
    "a", "t", "i", "o", "n", "a", "l", " ", "p", "u", "r", "p", "o", "s",
    "e", "s", " ", "o", "n", "l", "y", ".", " ", "A", "l", "w", "a", "y",
    "s", " ", "c", "o", "n", "s", "u", "l", "t", " ", "a", " ", "q", "u",
    "a", "l", "i", "f", "i", "e", "d", " ", "h", "e", "a", "l", "t", "h",
    "c", "a", "r", "e", " ", "p", "r", "o", "f", "e", "s", "s", "i", "o",
    "n", "a", "l", ".">>

\* the text of the default note
DefaultNote == NoteHeader \o Disclaimer \o <<"\n">>

Ok(s) == [threw |-> FALSE, s |-> s]
Throw == [threw |-> TRUE, s |-> <<>>]

\* message += b after a: a TypeError of either ends the function
Then(a, b) ==
  IF a.threw THEN Throw
  ELSE IF b.threw THEN Throw
  ELSE Ok(a.s \o b.s)

\* the substitution ${v} of a template literal
Template(v) == IF ToStringThrows(v) THEN Throw ELSE Ok(ToStr(v))

\* a || b
OrElse(a, b) == IF Truthy(a) THEN a ELSE b

\* the first line: the name, or the fallback, and a blank line
NameLines(data) ==
  Then(Template(OrElse(Get(data, K_name), JStr(UnknownMedicine))), Ok(<<"\n", "\n">>))

\* [u.condition, u.description].filter(Boolean).join(': ')
ConditionLine(u) ==
  LET kept == SelectSeq(<<Get(u, K_condition), Get(u, K_description)>>, Truthy)
  IN IF \E i \in 1..Len(kept) : ToStringThrows(kept[i]) THEN Throw
     ELSE Ok(Join(kept, <<":", " ">>))

\* UseLine with the entries that are not strings left out
UseLineStringsOnly(u) ==
  IF u.t = "str" THEN Ok(<<"-", " ">> \o u.s \o <<"\n">>) ELSE Ok(<<>>)

\* the line of one entry of uses: a string as it is, an object (or array) as
\* condition: description or else its JSON text, nothing for any other entry
UseLine(u) ==
  IF u.t = "str" THEN Ok(<<"-", " ">> \o u.s \o <<"\n">>)
  ELSE IF u.t \in {"obj", "arr"}
       THEN LET line == ConditionLine(u)
            IN IF line.threw THEN Throw
               ELSE Ok(<<"-", " ">>
                       \o (IF line.s # <<>> THEN line.s ELSE Stringify(u))
                       \o <<"\n">>)
       ELSE Ok(<<>>)

\* the loop over data.uses, from entry i on
RECURSIVE UseLines(_, _)
UseLines(uses, i) ==
  IF i > Len(uses) THEN Ok(<<>>)
  ELSE Then(UseLine(uses[i]), UseLines(uses, i + 1))

\* the Uses section, of a non-empty array only
UsesSection(data) ==
  LET uses == Get(data, K_uses)
  IN IF IsArray(uses) /\ Len(uses.a) # 0
     THEN Then(Ok(UsesHeader), Then(UseLines(uses.a, 1), Ok(<<"\n">>)))
     ELSE Ok(<<>>)

\* the loop over group.effects, from entry i on
RECURSIVE EffectLines(_, _)
EffectLines(effects, i) ==
  IF i > Len(effects) THEN Ok(<<>>)
  ELSE Then(Then(Ok(<<" ", " ", "-", " ">>), Then(Template(effects[i]), Ok(<<"\n">>))),
            EffectLines(effects, i + 1))

\* the lines of one entry of sideEffects: a string on a line of its own; for
\* any other entry its severity and its effects.  group.severity of a null
\* entry is a TypeError
GroupLines(group) ==
  IF group.t = "str" THEN Ok(<<"-", " ">> \o group.s \o <<"\n", "\n">>)
  ELSE IF group.t \in {"null", "undefined"} THEN Throw
  ELSE LET sev == OrElse(Get(group, K_severity), JStr(SeverityNotSpecified))
           effects == Get(group, K_effects)
       IN Then(Then(Ok(<<"-", " ">>), Then(Template(sev), Ok(<<":", "\n">>))),
               Then(IF IsArray(effects) THEN EffectLines(effects.a, 1) ELSE Ok(<<>>),
                    Ok(<<"\n">>)))

\* the loop over data.sideEffects, from entry i on
RECURSIVE SideEffectLines(_, _)
SideEffectLines(groups, i) ==
  IF i > Len(groups) THEN Ok(<<>>)
  ELSE Then(GroupLines(groups[i]), SideEffectLines(groups, i + 1))

\* the Side Effects section, of a non-empty array only
SideEffectsSection(data) ==
  LET sideEffects == Get(data, K_sideEffects)
  IN IF IsArray(sideEffects) /\ Len(sideEffects.a) # 0
     THEN Then(Ok(SideEffectsHeader), SideEffectLines(sideEffects.a, 1))
     ELSE Ok(<<>>)

\* the Note section: the note, or the disclaimer
NoteSection(data) ==
  LET note == Get(data, K_note)
  IN IF Truthy(note)
     THEN Then(Ok(NoteHeader), Then(Template(note), Ok(<<"\n">>)))
     ELSE Ok(DefaultNote)

\* formatMedicineData(data): data.name of null is a TypeError
formatMedicineData(data) ==
  IF data.t \in {"null", "undefined"} THEN Throw
  ELSE LET message ==
             Then(NameLines(data),
                  Then(UsesSection(data),
                       Then(SideEffectsSection(data), NoteSection(data))))
       IN IF message.threw THEN Throw ELSE Ok(Trim(message.s))

----------------------------------------------------------------------------
(* The handler of POST /api/ai.  A request r is the record req[r]:          *)
(*   pc         where its handler is: "new" (not received), "awaitGenerate" *)
(*              (suspended at await model.generateContent), "awaitResponse" *)
(*              (suspended at await result.response), "done" (returned)     *)
(*   body       req.body                                                    *)
(*   calls      how many times the handler entered the capability           *)
(*              (genAI.getGenerativeModel)                                  *)
(*   prompts    how many times it called model.generateContent              *)
(*   upstream   the capability call: "none", "pending", "settled"           *)
(*   outcome    how the capability call ends, once settled: [kind, err,     *)
(*              text]                                                       *)
(*   responses  the responses sent, each [status, body], the body the       *)
(*              object given to res.json                                    *)
(*   log        what the handler wrote to the console                       *)

\* the number of concurrent requests
MaxReqs == 2

Reqs == 1..MaxReqs

K_query ==
  <<"q", "u", "e", "r", "y">>

QueryIsRequired ==
  <<"q", "u", "e", "r", "y", " ", "i", "s", " ", "r", "e", "q", "u", "i", "r", "e", "d">>

GeminiFailed ==
  <<"G", "e", "m", "i", "n", "i", " ", "A", "I", " ", "r", "e", "q", "u", "e", "s", "t", " ", "f", "a", "i", "l", "e", "d">>

K_error ==
  <<"e", "r", "r", "o", "r">>

K_text ==
  <<"t", "e", "x", "t">>

K_raw ==
  <<"r", "a", "w">>

K_detail ==
  <<"d", "e", "t", "a", "i", "l">>

Outcome(kind, err, text) == [kind |-> kind, err |-> err, text |-> text]

NoOutcome == Outcome("none", "", None)

NewRequest ==
  [pc |-> "new", body |-> Undefined, calls |-> 0, prompts |-> 0,
   upstream |-> "none", outcome |-> NoOutcome, responses |-> <<>>, log |-> <<>>]

\* const { query } = req.body ?? {}
QueryOf(body) ==
  IF body.t \in {"undefined", "null"} THEN Undefined ELSE Get(body, K_query)

\* a validation that accepts every query that is defined
QueryUndefined(body) == QueryOf(body).t = "undefined"

\* !query
QueryMissing(body) == ~Truthy(QueryOf(body))

\* res.status(400).json({ error: 'query is required' })
BadRequest ==
  [status |-> 400, body |-> JObj(<< <<K_error, JStr(QueryIsRequired)>> >>)]

\* a catch block that sends the error on to the client
ServerErrorLeaking(err) ==
  [status |-> 500,
   body |-> JObj(<< <<K_error, JStr(GeminiFailed)>>, <<K_detail, JStr(<<err>>)>> >>)]

\* res.status(500).json({ error: 'Gemini AI request failed' })
ServerError(err) ==
  [status |-> 500, body |-> JObj(<< <<K_error, JStr(GeminiFailed)>> >>)]

\* console.error('Gemini Error:', err)
ErrorLog(err) == <<"error", "Gemini Error:", err>>

\* console.warn('Could not parse JSON from Gemini, returning raw text.')
ParseWarning == <<"warn", "Could not parse JSON from Gemini, returning raw text.">>

\* res.json({ text: formattedText, raw: parsed })
Success(formattedText, parsed) ==
  [status |-> 200,
   body |-> JObj(<< <<K_text, JStr(formattedText)>>, <<K_raw, parsed>> >>)]

\* response.text() || ''
RawText(text) == IF text.some /\ text.s # <<>> THEN text.s ELSE <<>>

\* extractJson(rawText) ?? rawText
JsonString(rawText) ==
  LET extracted == extractJson(Some(rawText))
  IN IF extracted.some THEN extracted.s ELSE rawText

\* what the handler answers and logs after the inner try block, which leaves
\* parsed and formattedText as they are where it throws: JSON.parse (p)
\* before parsed is assigned, formatMedicineData (formatted) after
Reply(rawText, p, formatted) ==
  IF ~p.ok
  THEN [response |-> Success(rawText, JNull), log |-> <<ParseWarning>>]
  ELSE IF formatted.threw
  THEN [response |-> Success(rawText, p.v), log |-> <<ParseWarning>>]
  ELSE [response |-> Success(formatted.s, p.v), log |-> <<>>]

\* the catch block of the handler: log the error, answer 500
Failed(q, err) ==
  [q EXCEPT !.pc = "done",
            !.log = Append(@, ErrorLog(err)),
            !.responses = Append(@, ServerError(err))]

\* a request arrives and its handler runs to its first await or to its
\* return: the validation, then getGenerativeModel, which throws or not
\* (modelError), then the call of generateContent
Receive(r, body, modelError) ==
  /\ req[r].pc = "new"
  /\ req' = [req EXCEPT ![r] =
       IF QueryMissing(body)
       THEN [@ EXCEPT !.pc = "done", !.body = body,
                      !.responses = Append(@, BadRequest)]
       ELSE IF modelError.some
       THEN Failed([@ EXCEPT !.body = body, !.calls = @ + 1, !.upstream = "settled",
                             !.outcome = Outcome("modelThrows", modelError.s, None)],
                   modelError.s)
       ELSE [@ EXCEPT !.pc = "awaitGenerate", !.body = body, !.calls = @ + 1,
                      !.prompts = @ + 1, !.upstream = "pending"]]
  /\ UNCHANGED <<ex, fm>>

\* the upstream ends the call: generateContent rejects, or it resolves with
\* a result whose response rejects, whose text() throws, or whose text()
\* returns a text
UpstreamSettles(r, outcome) ==
  /\ req[r].pc = "awaitGenerate"
  /\ req[r].upstream = "pending"
  /\ req' = [req EXCEPT ![r].upstream = "settled", ![r].outcome = outcome]
  /\ UNCHANGED <<ex, fm>>

\* a handler that calls the capability again when generateContent rejects
AfterGenerateRetrying(r) ==
  /\ req[r].pc = "awaitGenerate"
  /\ req[r].upstream = "settled"
  /\ req' = [req EXCEPT ![r] =
       IF req[r].outcome.kind = "rejects" /\ req[r].calls < 2
       THEN [@ EXCEPT !.calls = @ + 1, !.prompts = @ + 1, !.upstream = "pending",
                      !.outcome = NoOutcome]
       ELSE IF req[r].outcome.kind = "rejects"
       THEN Failed(@, req[r].outcome.err)
       ELSE [@ EXCEPT !.pc = "awaitResponse"]]
  /\ UNCHANGED <<ex, fm>>

\* the handler resumes after await model.generateContent(prompt): a
\* rejection goes to the catch block, a result to await result.response
AfterGenerate(r) ==
  /\ req[r].pc = "awaitGenerate"
  /\ req[r].upstream = "settled"
  /\ req' = [req EXCEPT ![r] =
       IF req[r].outcome.kind = "rejects"
       THEN Failed(@, req[r].outcome.err)
       ELSE [@ EXCEPT !.pc = "awaitResponse"]]
  /\ UNCHANGED <<ex, fm>>

\* the handler resumes after await result.response and runs to its return;
\* rawText, p and formatted are its locals rawText, parsed and formattedText
AfterResponse(r) ==
  /\ req[r].pc = "awaitResponse"
  /\ IF req[r].outcome.kind \in {"responseRejects", "textThrows"}
     THEN req' = [req EXCEPT ![r] = Failed(@, req[r].outcome.err)]
     ELSE \E rawText \in { RawText(req[r].outcome.text) } :
          \E p \in { JSONparse(JsonString(rawText)) } :
          \E formatted \in { IF p.ok THEN formatMedicineData(p.v) ELSE Throw } :
            req' = [req EXCEPT ![r] =
              [@ EXCEPT !.pc = "done",
                        !.log = @ \o Reply(rawText, p, formatted).log,
                        !.responses = Append(@, Reply(rawText, p, formatted).response)]]
  /\ UNCHANGED <<ex, fm>>

----------------------------------------------------------------------------
(* The texts extractJson is run on: every concatenation of at most          *)
(* MaxPieces pieces, and the absent text.                                   *)

Pieces ==
  { FENCE, <<"j", "s", "o", "n">>, <<"J", "S", "o", "N">>,
    <<"{">>, <<"}">>, <<" ">>, <<"x">>, <<Tick>> }

RECURSIVE Concat(_)
Concat(ps) == IF ps = <<>> THEN <<>> ELSE Head(ps) \o Concat(Tail(ps))

ExIdle == [pc |-> "idle", text |-> None, result |-> None]
FmIdle == [pc |-> "idle", data |-> JNull, result |-> Throw]

ExCall(text) == [pc |-> "call", text |-> text, result |-> None]

InitExtract ==
  /\ \/ ex = ExCall(None)
     \/ \E n \in 0..MaxPieces : \E ps \in [1..n -> Pieces] : ex = ExCall(Some(Concat(ps)))
  /\ fm = FmIdle
  /\ req = <<>>

\* the call extractJson(text) returns
ExtractJson ==
  /\ ex.pc = "call"
  /\ ex' = [ex EXCEPT !.pc = "done", !.result = extractJson(ex.text)]
  /\ UNCHANGED <<fm, req>>

NextExtract == ExtractJson

SpecExtract == InitExtract /\ [][NextExtract]_vars

----------------------------------------------------------------------------
(* The values formatMedicineData is run on.                                 *)

\* the length of the strings of name and note
MaxStrLen == 2
\* the length of the arrays uses and sideEffects
MaxList == 2
\* the length of the array effects of a group
MaxEffects == 2

FieldChars == {"a", " ", "*", "\n"}

FieldStrings == UNION { [1..k -> FieldChars] : k \in 0..MaxStrLen }

\* an object whose own toString member hides Object.prototype.toString
NoPrimitive == JObj(<< <<K_toString, JNum(1)>> >>)

\* the values of name and of note: absent, of a wrong type, or a string
ScalarValues ==
  { Undefined, JNull, JNum(0), JNum(12), JBool(TRUE), JObj(<<>>), NoPrimitive,
    JArr(<<JNull, JStr(<<"a">>)>>) }
  \cup { JStr(s) : s \in FieldStrings }

\* the object with the members given, the undefined ones left out
MkObj(members) == JObj(SelectSeq(members, LAMBDA m : m[2].t # "undefined"))

MkData(name, uses, sideEffects, note) ==
  MkObj(<< <<K_name, name>>, <<K_uses, uses>>,
           <<K_sideEffects, sideEffects>>, <<K_note, note>> >>)

MkUse(condition, description) ==
  MkObj(<< <<K_condition, condition>>, <<K_description, description>> >>)

MkGroup(severity, effects) ==
  MkObj(<< <<K_severity, severity>>, <<K_effects, effects>> >>)

ArraysOf(S, n) == UNION { { JArr(a) : a \in [1..k -> S] } : k \in 0..n }

\* the members condition and description of an entry of uses
ConditionValues == { Undefined, JStr(<<>>), JStr(<<"c">>), JStr(<<"*", "*">>), NoPrimitive }

\* entries of uses, of every shape
UseEntries ==
  { JStr(<<>>), JStr(<<"u">>), JStr(<<"*", "*">>), JNull, JNum(1), JBool(FALSE),
    JArr(<<>>), JArr(<<JNum(1)>>) }
  \cup { MkUse(c, d) : c \in ConditionValues, d \in ConditionValues }

\* the entries the longer arrays of uses are made of
CoreUseEntries ==
  { JStr(<<"u">>), JStr(<<"v", " ">>), MkUse(JStr(<<"c">>), JStr(<<"d">>)), JNull }

\* values of uses that are not arrays
NotArrays == { Undefined, JNull, JStr(<<"u">>), JNum(1), JObj(<<>>) }

EffectValues == { JStr(<<"e">>), JStr(<<"*", "*">>), JNull }

\* entries of sideEffects, of every shape
GroupEntries ==
  { JStr(<<>>), JStr(<<"g">>), JStr(<<"*", "*">>), JNull, JNum(1), JArr(<<>>) }
  \cup { MkGroup(s, e) :
           s \in { Undefined, JStr(<<"s">>), JStr(<<"*", "*">>), NoPrimitive },
           e \in { Undefined, JStr(<<"e">>), JArr(<<NoPrimitive>>) }
                 \cup ArraysOf(EffectValues, MaxEffects) }

\* the entries the longer arrays of sideEffects are made of
CoreGroupEntries ==
  { JStr(<<"g">>), MkGroup(JStr(<<"s">>), JArr(<<JStr(<<"e">>), JStr(<<"f">>)>>)),
    MkGroup(JStr(<<"t">>), JArr(<<>>)), JNull }

\* a populated uses and a populated sideEffects
SomeUses == JArr(<<JStr(<<"u">>), MkUse(JStr(<<"c">>), JStr(<<"d">>))>>)
SomeSideEffects ==
  JArr(<<MkGroup(JStr(<<"s">>), JArr(<<JStr(<<"e">>), JStr(<<"f">>)>>)), JStr(<<"g">>)>>)

FmCall(data) == [pc |-> "call", data |-> data, result |-> Throw]

InitFormat ==
  /\ ex = ExIdle
  /\ req = <<>>
  /\ \/ \* the values that are not objects
        \E data \in { JNull, JNum(0), JNum(1), JBool(TRUE), JStr(<<"a">>), JArr(<<>>),
                      JArr(<<JObj(<<>>)>>) } :
          fm = FmCall(data)
     \/ \* every name and note, with and without the two arrays
        \E name \in ScalarValues, note \in ScalarValues,
           uses \in { Undefined, SomeUses }, sideEffects \in { Undefined, SomeSideEffects } :
          fm = FmCall(MkData(name, uses, sideEffects, note))
     \/ \* one entry of uses of every shape, and uses that is no array
        \E uses \in NotArrays \cup ArraysOf(UseEntries, 1),
           rest \in { <<Undefined, Undefined, Undefined>>,
                      <<JStr(<<"n">>), SomeSideEffects, JStr(<<"t">>)>> } :
          fm = FmCall(MkData(rest[1], uses, rest[2], rest[3]))
     \/ \* one entry of sideEffects of every shape, and sideEffects that is no array
        \E sideEffects \in NotArrays \cup ArraysOf(GroupEntries, 1),
           rest \in { <<Undefined, Undefined, Undefined>>,
                      <<JStr(<<"n">>), SomeUses, JStr(<<"t">>)>> } :
          fm = FmCall(MkData(rest[1], rest[2], sideEffects, rest[3]))
     \/ \* the longer arrays
        \E uses \in ArraysOf(CoreUseEntries, MaxList),
           sideEffects \in ArraysOf(CoreGroupEntries, MaxList),
           rest \in { <<Undefined, Undefined>>, <<JStr(<<"n">>), JStr(<<"t">>)>> } :
          fm = FmCall(MkData(rest[1], uses, sideEffects, rest[2]))

\* the call formatMedicineData(data) returns, or throws
FormatMedicineData ==
  /\ fm.pc = "call"
  /\ fm' = [fm EXCEPT !.pc = "done", !.result = formatMedicineData(fm.data)]
  /\ UNCHANGED <<ex, req>>

NextFormat == FormatMedicineData

SpecFormat == InitFormat /\ [][NextFormat]_vars

----------------------------------------------------------------------------
(* The requests, and what the upstream stub answers.                        *)

\* req.body: absent, without a query, with a query that is empty, null or 0,
\* an array, and with a query
Bodies ==
  { Undefined, JObj(<<>>), JArr(<<>>),
    JObj(<< <<K_query, JStr(<<>>)>> >>),
    JObj(<< <<K_query, JNull>> >>),
    JObj(<< <<K_query, JNum(0)>> >>),
    JObj(<< <<K_name, JStr(<<"q">>)>> >>),
    JObj(<< <<K_query, JStr(<<"q">>)>> >>) }

\* the errors of the upstream: network, quota
Errors == { "network", "quota" }

\* what getGenerativeModel throws, if it throws
ModelErrors == { [some |-> FALSE, s |-> ""] } \cup { [some |-> TRUE, s |-> e] : e \in Errors }

FailureKinds == { "rejects", "responseRejects", "textThrows" }

Failures == { Outcome(k, e, None) : k \in FailureKinds, e \in Errors }

TextOutcome(text) == Outcome("text", "", text)

JsonFenced(s) == FENCE \o <<"j", "s", "o", "n", "\n">> \o s \o <<"\n">> \o FENCE

\* the texts of the stub of the concurrent requests: no text, text that is
\* no JSON, and the JSON texts null and 1
FewTexts ==
  { None, Some(<<"n", "o">>), Some(W_null), Some(<<"1">>) }

Init ==
  /\ ex = ExIdle
  /\ fm = FmIdle
  /\ req = [r \in Reqs |-> NewRequest]

Next ==
  \E r \in Reqs :
    \/ \E body \in Bodies, modelError \in ModelErrors : Receive(r, body, modelError)
    \/ \E outcome \in Failures \cup { TextOutcome(t) : t \in FewTexts } :
         UpstreamSettles(r, outcome)
    \/ AfterGenerate(r)
    \/ AfterResponse(r)

Spec == Init /\ [][Next]_vars

\* fewer inputs for the runs that check fairness: a body without and a body
\* with a query, one error, no text and a JSON text
LiveBodies == { JObj(<<>>), JObj(<< <<K_query, JStr(<<"q">>)>> >>) }

LiveModelErrors == { [some |-> FALSE, s |-> ""], [some |-> TRUE, s |-> "network"] }

LiveOutcomes ==
  { Outcome(k, "network", None) : k \in FailureKinds }
  \cup { TextOutcome(None), TextOutcome(Some(<<"1">>)) }

NextLive ==
  \E r \in Reqs :
    \/ \E body \in LiveBodies, modelError \in LiveModelErrors : Receive(r, body, modelError)
    \/ \E outcome \in LiveOutcomes : UpstreamSettles(r, outcome)
    \/ AfterGenerate(r)
    \/ AfterResponse(r)

\* the event loop runs a handler whose awaited promise has settled; nothing
\* makes a client send a request or the upstream answer
LiveSpec ==
  /\ Init
  /\ [][NextLive]_vars
  /\ \A r \in Reqs : WF_vars(AfterGenerate(r)) /\ WF_vars(AfterResponse(r))
----------------------------------------------------------------------------
(* One request, and a stub that answers with many texts: JSON texts of      *)
(* parsed values, bare and wrapped, and short texts of JSON tokens.         *)

\* the number of pieces of a short text
MaxReplyPieces == 3

\* the parsed values whose JSON text the stub answers with
ReplyValues ==
  { JNull, JNum(0), JNum(12), JBool(TRUE), JStr(<<"a">>), JArr(<<>>) }
  \cup { MkData(name, uses, sideEffects, note) :
           name \in { Undefined, JStr(<<"n">>), JStr(<<"*", "*">>), NoPrimitive },
           uses \in { Undefined, SomeUses, JArr(<<JNull, JNum(1)>>) },
           sideEffects \in { Undefined, SomeSideEffects, JArr(<<JNull>>), JArr(<<JNum(1)>>) },
           note \in { Undefined, JStr(<<"t", "\n">>) } }

Wrappers == { "bare", "json", "JSON", "fence", "prose", "space", "brace", "two" }

\* the JSON text s as a model answers with it
Wrap(w, s) ==
  CASE w = "bare" -> s
    [] w = "json" -> JsonFenced(s)
    [] w = "JSON" -> <<"H", "i", ":", "\n">> \o FENCE \o <<"J", "S", "O", "N">> \o s
                     \o FENCE \o <<"\n", "b", "y", "e">>
    [] w = "fence" -> FENCE \o <<"\n">> \o s \o <<"\n">> \o FENCE
    [] w = "prose" -> <<"S", "u", "r", "e", ":", " ">> \o s \o <<" ", "o", "k">>
    [] w = "space" -> <<" ", "\n">> \o s \o <<"\n">>
    [] w = "brace" -> <<"{", "x", "}", " ">> \o s
    [] OTHER -> FENCE \o <<"x">> \o FENCE \o <<" ">> \o JsonFenced(s)

ReplyPieces ==
  { FENCE, <<"j", "s", "o", "n">>, <<"{">>, <<"}">>, <<"[">>, <<"]">>, <<"1">>,
    <<"\"", "a", "\"">>, <<":">>, <<",">>, <<" ">>, W_null }

NextReply ==
  \/ \E body \in Bodies, modelError \in ModelErrors : Receive(1, body, modelError)
  \/ \E outcome \in Failures \cup { TextOutcome(None) } : UpstreamSettles(1, outcome)
  \/ \E v \in ReplyValues, w \in Wrappers :
       UpstreamSettles(1, TextOutcome(Some(Wrap(w, Stringify(v)))))
  \/ \E n \in 0..MaxReplyPieces : \E ps \in [1..n -> ReplyPieces] :
       UpstreamSettles(1, TextOutcome(Some(Concat(ps))))
  \/ AfterGenerate(1)
  \/ AfterResponse(1)

SpecReply == Init /\ [][NextReply]_vars

----------------------------------------------------------------------------
(* The claims about extractJson, stated on the text itself.                 *)

\* the text with its leading and trailing white space removed
Stripped(s) ==
  LET keep == { i \in 1..Len(s) : s[i] \notin {" ", "\n", "\t", "\r"} }
  IN IF keep = {} THEN <<>>
     ELSE SubSeq(s, CHOOSE i \in keep : \A k \in keep : i <= k,
                    CHOOSE j \in keep : \A k \in keep : k <= j)

FenceAt(s, i) == i + 2 <= Len(s) /\ s[i] = Tick /\ s[i + 1] = Tick /\ s[i + 2] = Tick

JsonLabels ==
  { <<a, b, c, d>> : a \in {"j", "J"}, b \in {"s", "S"}, c \in {"o", "O"}, d \in {"n", "N"} }

\* the positions of the text where a fence starts
Fences(s) == { i \in 1..Len(s) : FenceAt(s, i) }

\* the fenced blocks <<opening fence, closing fence>> whose interior starts h
\* characters after the opening fence: the closing fence is the next fence
\* from there on
Blocks(s, h) ==
  { b \in Fences(s) \X Fences(s) :
      /\ b[2] >= b[1] + h
      /\ \A k \in Fences(s) : ~(b[1] + h <= k /\ k < b[2]) }

\* the fenced blocks labeled as JSON: <<opening fence, closing fence>>
JsonBlocks(s) ==
  { b \in Blocks(s, 7) : b[1] + 6 <= Len(s) /\ SubSeq(s, b[1] + 3, b[1] + 6) \in JsonLabels }

\* the fenced blocks, labeled or not
GenericBlocks(s) == Blocks(s, 3)

FirstBlock(bs) == CHOOSE b \in bs : \A c \in bs : b[1] <= c[1]

HasBracePair(s) == \E i, j \in 1..Len(s) : i < j /\ s[i] = "{" /\ s[j] = "}"

FirstOpen(s) == CHOOSE i \in 1..Len(s) : s[i] = "{" /\ \A k \in 1..(i - 1) : s[k] # "{"
LastClose(s) == CHOOSE j \in 1..Len(s) : s[j] = "}" /\ \A k \in (j + 1)..Len(s) : s[k] # "}"

ExDone == ex.pc = "done"
ExText == ex.text.s

\* C5: for every text that holds a fenced block labeled as JSON (in any
\* case of the label), extractJson returns the trimmed interior of that
\* block (the first one, when there are several), whatever generic fenced
\* blocks or braces the text holds elsewhere, before the block included.
C5_LabeledFenceWins ==
  (ExDone /\ ex.text.some /\ JsonBlocks(ExText) # {}) =>
    LET b == FirstBlock(JsonBlocks(ExText))
    IN ex.result = Some(Stripped(SubSeq(ExText, b[1] + 7, b[2] - 1)))

\* C5's case: a generic fenced block and a brace come before the labeled block
C5_Witness ==
  /\ ExDone /\ ex.text.some
  /\ JsonBlocks(ExText) # {}
  /\ FirstBlock(GenericBlocks(ExText))[1] < FirstBlock(JsonBlocks(ExText))[1]
  /\ ex.result.some /\ ex.result.s # <<>>

\* C6: for every text with no fenced block labeled as JSON and at least one
\* generic fenced block, extractJson returns the trimmed interior of the
\* first generic fenced block, and not the slice between braces.
C6_FirstGenericFence ==
  (ExDone /\ ex.text.some /\ JsonBlocks(ExText) = {} /\ GenericBlocks(ExText) # {}) =>
    LET b == FirstBlock(GenericBlocks(ExText))
    IN ex.result = Some(Stripped(SubSeq(ExText, b[1] + 3, b[2] - 1)))

\* C6's case: the text also holds a { before a }, and a second fenced block
C6_Witness ==
  /\ ExDone /\ ex.text.some
  /\ JsonBlocks(ExText) = {}
  /\ Cardinality(GenericBlocks(ExText)) >= 2
  /\ HasBracePair(ExText)
  /\ ex.result.some /\ ex.result.s # <<>>

\* C7: for every text with no fenced block (the empty and the absent text
\* included), extractJson returns the trimmed substring from the first { to
\* the last } if and only if some { comes before some later }, and an absent
\* result in every other case.
C7_BraceSlice ==
  (ExDone /\ (~ex.text.some \/ GenericBlocks(ExText) = {})) =>
    IF ex.text.some /\ HasBracePair(ExText)
    THEN ex.result = Some(Stripped(SubSeq(ExText, FirstOpen(ExText), LastClose(ExText))))
    ELSE ex.result = None

\* C7's case: a text with no fenced block, text before the first { and
\* a } before the last one
C7_Witness ==
  /\ ExDone /\ ex.text.some
  /\ GenericBlocks(ExText) = {}
  /\ ex.result.some
  /\ FirstOpen(ExText) > 1
  /\ Cardinality({ i \in 1..Len(ex.result.s) : ex.result.s[i] = "}" }) >= 2

----------------------------------------------------------------------------
(* The claims about formatMedicineData.                                     *)

FmDone == fm.pc = "done"

\* C4: formatMedicineData never fails: for every value JSON.parse can give,
\* fields missing or of an unexpected shape included, it returns a string
\* and does not throw.
C4_FormatterNeverFails == FmDone => ~fm.result.threw

\* C9: the string formatMedicineData returns holds no ** emphasis marker,
\* whatever the name, uses, sideEffects and note of its input hold.
C9_NoEmphasisMarkers ==
  (FmDone /\ ~fm.result.threw) =>
    \A i \in 1..(Len(fm.result.s) - 1) :
      ~(fm.result.s[i] = "*" /\ fm.result.s[i + 1] = "*")

IsText(v) == v.t = "str" /\ v.s # <<>>

\* a MedicineInfo object with every field populated
Populated(d) ==
  /\ d.t = "obj"
  /\ IsText(Get(d, K_name))
  /\ IsText(Get(d, K_note))
  /\ LET uses == Get(d, K_uses)
     IN /\ uses.t = "arr" /\ uses.a # <<>>
        /\ \A i \in 1..Len(uses.a) :
             \/ uses.a[i].t = "str"
             \/ /\ uses.a[i].t = "obj"
                /\ IsText(Get(uses.a[i], K_condition))
                /\ IsText(Get(uses.a[i], K_description))
  /\ LET groups == Get(d, K_sideEffects)
     IN /\ groups.t = "arr" /\ groups.a # <<>>
        /\ \A i \in 1..Len(groups.a) :
             \/ groups.a[i].t = "str"
             \/ /\ groups.a[i].t = "obj"
                /\ IsText(Get(groups.a[i], K_severity))
                /\ Get(groups.a[i], K_effects).t = "arr"
                /\ \A k \in 1..Len(Get(groups.a[i], K_effects).a) :
                     Get(groups.a[i], K_effects).a[k].t = "str"

\* the bullet line of an entry of uses
BulletOf(u) ==
  IF u.t = "str" THEN <<"-", " ">> \o u.s \o <<"\n">>
  ELSE <<"-", " ">> \o Get(u, K_condition).s \o <<":", " ">>
       \o Get(u, K_description).s \o <<"\n">>

\* the subgroup of an entry of sideEffects
SubgroupOf(g) ==
  IF g.t = "str" THEN <<"-", " ">> \o g.s \o <<"\n", "\n">>
  ELSE <<"-", " ">> \o Get(g, K_severity).s \o <<":", "\n">>
       \o Concat([k \in 1..Len(Get(g, K_effects).a) |->
                   <<" ", " ", "-", " ">> \o Get(g, K_effects).a[k].s \o <<"\n">>])
       \o <<"\n">>

\* the Uses: section, one bullet line per entry in input order
UsesText(d) ==
  <<"U", "s", "e", "s", ":", "\n">>
  \o Concat([i \in 1..Len(Get(d, K_uses).a) |-> BulletOf(Get(d, K_uses).a[i])])

\* the Side Effects: section, one subgroup per entry in input order
SideEffectsText(d) ==
  <<"S", "i", "d", "e", " ", "E", "f", "f", "e", "c", "t", "s", ":", "\n">>
  \o Concat([i \in 1..Len(Get(d, K_sideEffects).a) |->
              SubgroupOf(Get(d, K_sideEffects).a[i])])

\* the Note: section with the note
NoteText(d) == <<"N", "o", "t", "e", ":", "\n">> \o Get(d, K_note).s

\* the first position from position from on where seg occurs in s, 0 if none
FindFrom(s, seg, from) ==
  LET at == { p \in from..(Len(s) - Len(seg) + 1) :
                \A k \in 1..Len(seg) : s[p + k - 1] = seg[k] }
  IN IF at = {} THEN 0 ELSE CHOOSE p \in at : \A q \in at : p <= q

\* whether s contains the segments, in their order, from position from on
RECURSIVE ContainsInOrder(_, _, _)
ContainsInOrder(s, segs, from) ==
  IF segs = <<>> THEN TRUE
  ELSE LET p == FindFrom(s, Head(segs), from)
       IN p # 0 /\ ContainsInOrder(s, Tail(segs), p + Len(Head(segs)))

\* C8 as claimed: for a MedicineInfo object with all fields populated the
\* output contains, in this order, the name, the Uses: section with one
\* bullet line per entry, the Side Effects: section with one subgroup per
\* entry, and the Note: section with the note text.
C8_ContainsNameAndNote ==
  (FmDone /\ Populated(fm.data)) =>
    /\ ~fm.result.threw
    /\ ContainsInOrder(fm.result.s,
                       << Get(fm.data, K_name).s, UsesText(fm.data),
                          SideEffectsText(fm.data), NoteText(fm.data) >>, 1)

\* C8 as amended: for a MedicineInfo object with all fields populated the
\* output is, with the white space at its two ends removed, the name, a
\* blank line, the Uses: section with one bullet line per entry in input
\* order, a blank line, the Side Effects: section with one subgroup per entry
\* in input order, and the Note: section with the note text.
C8_TrimmedReport ==
  (FmDone /\ Populated(fm.data)) =>
    /\ ~fm.result.threw
    /\ fm.result.s =
         Stripped(Get(fm.data, K_name).s \o <<"\n", "\n">>
                  \o UsesText(fm.data) \o <<"\n">>
                  \o SideEffectsText(fm.data)
                  \o NoteText(fm.data))

\* C8's case: every field populated, uses with a string and an object,
\* sideEffects with a group of two effects and a string, white space at the
\* start of the name
C8_Witness ==
  /\ FmDone /\ Populated(fm.data) /\ ~fm.result.threw
  /\ Get(fm.data, K_name).s[1] = " "
  /\ \E i, j \in 1..Len(Get(fm.data, K_uses).a) :
       Get(fm.data, K_uses).a[i].t = "str" /\ Get(fm.data, K_uses).a[j].t = "obj"
  /\ \E i, j \in 1..Len(Get(fm.data, K_sideEffects).a) :
       /\ Get(fm.data, K_sideEffects).a[i].t = "str"
       /\ Get(fm.data, K_sideEffects).a[j].t = "obj"
       /\ Len(Get(Get(fm.data, K_sideEffects).a[j], K_effects).a) = 2

----------------------------------------------------------------------------
(* The claims about the handler of POST /api/ai.                            *)

Failed500 == [status |-> 500, body |-> JObj(<< <<K_error, JStr(GeminiFailed)>> >>)]

\* a body with no query: absent, without a member query, or with a query
\* that is empty or null
NoQuery(body) ==
  \/ body.t = "undefined"
  \/ body.t \in {"obj", "arr"} /\ \A i \in 1..Len(body.m) : body.m[i][1] # K_query
  \/ \E i \in 1..Len(body.m) :
       body.m[i][1] = K_query /\ body.m[i][2] \in { JStr(<<>>), JNull }

\* C1: a request whose body has no query is answered 400 with the body
\* {"error": "query is required"}, and the external capability is never
\* invoked for it.
C1_NoQueryIs400 ==
  \A r \in Reqs :
    (req[r].pc # "new" /\ NoQuery(req[r].body)) =>
      /\ req[r].pc = "done"
      /\ req[r].responses =
           << [status |-> 400, body |-> JObj(<< <<K_error, JStr(QueryIsRequired)>> >>)] >>
      /\ req[r].calls = 0
      /\ req[r].prompts = 0
      /\ req[r].upstream = "none"

\* C1's case: a request with an empty query was answered while the request
\* of another client waits for the upstream
C1_Witness ==
  \E r, o \in Reqs :
    /\ req[r].pc = "done"
    /\ req[r].body = JObj(<< <<K_query, JStr(<<>>)>> >>)
    /\ req[o].pc = "awaitGenerate" /\ req[o].prompts = 1

UpstreamFailed(r) ==
  req[r].outcome.kind \in {"modelThrows", "rejects", "responseRejects", "textThrows"}

\* C2: when the capability call of a request with a query fails at any step
\* (obtaining the model, generating content, awaiting the response, reading
\* its text), the response is 500 with the body exactly
\* {"error": "Gemini AI request failed"}; the error goes to the log only.
C2_UpstreamFailureIs500 ==
  \A r \in Reqs :
    (req[r].pc = "done" /\ UpstreamFailed(r)) =>
      /\ req[r].responses = <<Failed500>>
      /\ req[r].log = << <<"error", "Gemini Error:", req[r].outcome.err>> >>

\* C2's case: one request failed reading the text, another obtaining the model
C2_Witness ==
  \E r, o \in Reqs :
    /\ req[r].pc = "done" /\ req[r].outcome.kind = "textThrows"
    /\ req[o].pc = "done" /\ req[o].outcome.kind = "modelThrows"
    /\ req[r].outcome.err # req[o].outcome.err

\* C3: when the upstream call succeeds the response is 200 with the body
\* {text, raw}: if the candidate text (the result of extractJson, or the
\* whole upstream text when that is absent) parses as JSON, raw is the parsed
\* value and text is the output of formatMedicineData on it; otherwise raw is
\* null and text is the upstream text.  raw is null only when parsing failed.
C3_SuccessBody ==
  \A r \in Reqs :
    (req[r].pc = "done" /\ req[r].outcome.kind = "text") =>
      LET rawText == IF req[r].outcome.text.some THEN req[r].outcome.text.s ELSE <<>>
          extracted == extractJson(Some(rawText))
          candidate == IF extracted.some THEN extracted.s ELSE rawText
          p == JSONparse(candidate)
          body == req[r].responses[1].body
      IN /\ Len(req[r].responses) = 1
         /\ req[r].responses[1].status = 200
         /\ IF p.ok
            THEN /\ ~formatMedicineData(p.v).threw
                 /\ body = JObj(<< <<K_text, JStr(formatMedicineData(p.v).s)>>,
                                   <<K_raw, p.v>> >>)
            ELSE body = JObj(<< <<K_text, JStr(rawText)>>, <<K_raw, JNull>> >>)
         /\ (Get(body, K_raw) = JNull => ~p.ok)

\* a body whose query is a non-empty string
HasQuery(body) ==
  /\ body.t = "obj"
  /\ \E i \in 1..Len(body.m) :
       body.m[i][1] = K_query /\ body.m[i][2].t = "str" /\ body.m[i][2].s # <<>>

\* what C10 says of every state
OneCallOneResponse(r) ==
  /\ req[r].calls <= 1
  /\ (req[r].pc # "new" /\ HasQuery(req[r].body)) => req[r].calls = 1
  /\ req[r].prompts <= 1
  /\ Len(req[r].responses) <= 1
  /\ req[r].pc = "done" =>
       Len(req[r].responses) = 1 /\ req[r].responses[1].status \in {400, 200, 500}
  /\ req[r].responses # <<>> => req[r].pc = "done"
  /\ (req[r].responses # <<>> /\ req[r].responses[1].status # 400) =>
       req[r].calls = 1 /\ req[r].upstream = "settled"
  /\ req[r].upstream = "pending" => req[r].responses = <<>>

\* C10: in every interleaving of concurrent requests, each request invokes
\* the capability at most once (once when it has a query, no retry) and
\* sends one response (400, 200 or 500); with a query the response is sent
\* only after the upstream call completed, never while it is pending, and
\* is sent eventually once the call has completed.
C10_OneCallOneResponse ==
  /\ [](\A r \in Reqs : OneCallOneResponse(r))
  /\ [][\A r \in Reqs :
          req[r].responses # <<>> =>
            /\ req'[r].responses = req[r].responses
            /\ req'[r].calls = req[r].calls
            /\ req'[r].prompts = req[r].prompts]_vars
  /\ \A r \in Reqs : (req[r].upstream = "settled") ~> (Len(req[r].responses) = 1)

\* C10's case: one request was answered 200 after its one call, and another
\* 500 after generateContent rejected
C10_Witness ==
  \E r, o \in Reqs :
    /\ req[r].pc = "done" /\ req[r].responses[1].status = 200 /\ req[r].calls = 1
    /\ req[o].pc = "done" /\ req[o].responses[1].status = 500
    /\ req[o].outcome.kind = "rejects"

=============================================================================
